---------------------------- MODULE Spec2Model ----------------------------
(***************************************************************************)
(* Model of src/darklimb.py: the limb-darkening correction darklimb(name)  *)
(* and the file writer writefits(image, name).                             *)
(*                                                                         *)
(* Numbers.  The program computes in IEEE doubles.  The model computes in  *)
(* exact rationals extended with nan, inf and -inf, which follow the IEEE  *)
(* rules numpy applies (x/0, 0/0, nan propagation).  Two results are kept  *)
(* at a stated resolution instead of the doubles' 2^-53: the value of the  *)
(* coefficient polynomials (CoefDen) and a square root that is not the     *)
(* root of a perfect square (CosDen).  Every decision the program takes on *)
(* a comparison (data < -10, grid > 1.0) is taken on the exact value.      *)
(* The output grid is unsigned 32-bit; its pixels are kept as two 16-bit   *)
(* halves <<hi, lo>> so that arithmetic modulo 2^32 is exact.              *)
(***************************************************************************)
EXTENDS Integers, Sequences, FiniteSets, TLC

(***************************************************************************)
(* Extended rationals                                                      *)
(***************************************************************************)
Abs(x) == IF x < 0 THEN -x ELSE x

Sgn(x) == IF x < 0 THEN -1 ELSE IF x > 0 THEN 1 ELSE 0

RECURSIVE Gcd(_, _)
Gcd(a, b) == IF b = 0 THEN a ELSE Gcd(b, a % b)

NaN == [k |-> "nan", n |-> 0, d |-> 1]

Inf(s) == [k |-> IF s < 0 THEN "-inf" ELSE "inf", n |-> 0, d |-> 1]

\* the rational n/d in lowest terms, d > 0
Rat(n, d) ==
    LET g == Gcd(Abs(n), Abs(d))
        s == IF d < 0 THEN -1 ELSE 1
    IN  [k |-> "fin", n |-> s * (n \div g), d |-> s * (d \div g)]

Int2Num(i) == [k |-> "fin", n |-> i, d |-> 1]

IsFin(x) == x.k = "fin"

\* sign of an extended rational (0 for nan)
NumSgn(x) == CASE x.k = "fin" -> Sgn(x.n)
               [] x.k = "inf" -> 1
               [] x.k = "-inf" -> -1
               [] OTHER -> 0

\* x < y on finite values (a comparison with nan is False, as in IEEE)
Less(x, y) ==
    CASE x.k = "nan" \/ y.k = "nan" -> FALSE
      [] x.k = "fin" /\ y.k = "fin" -> x.n * y.d < y.n * x.d
      [] x.k = "-inf" -> y.k # "-inf"
      [] y.k = "inf" -> x.k # "inf"
      [] OTHER -> FALSE

NumAdd(x, y) ==
    CASE x.k = "nan" \/ y.k = "nan" -> NaN
      [] x.k = "fin" /\ y.k = "fin" -> Rat(x.n * y.d + y.n * x.d, x.d * y.d)
      [] x.k = "fin" -> y
      [] y.k = "fin" -> x
      [] x.k = y.k -> x
      [] OTHER -> NaN

NumNeg(x) ==
    CASE x.k = "fin" -> [x EXCEPT !.n = -x.n]
      [] x.k = "inf" -> Inf(-1)
      [] x.k = "-inf" -> Inf(1)
      [] OTHER -> NaN

NumSub(x, y) == NumAdd(x, NumNeg(y))

NumMul(x, y) ==
    CASE x.k = "nan" \/ y.k = "nan" -> NaN
      [] x.k = "fin" /\ y.k = "fin" -> Rat(x.n * y.n, x.d * y.d)
      [] NumSgn(x) = 0 \/ NumSgn(y) = 0 -> NaN
      [] OTHER -> Inf(NumSgn(x) * NumSgn(y))

\* x / y with numpy's float rules: nonzero/0 is +-inf, 0/0 is nan (the zero
\* divisor is +0.0), finite/inf is 0, inf/inf is nan
NumDiv(x, y) ==
    CASE x.k = "nan" \/ y.k = "nan" -> NaN
      [] x.k = "fin" /\ y.k = "fin" ->
            IF y.n = 0
            THEN IF x.n = 0 THEN NaN ELSE Inf(x.n)
            ELSE Rat(x.n * y.d, x.d * y.n)
      [] x.k = "fin" -> Int2Num(0)
      [] y.k = "fin" -> Inf(NumSgn(x) * (IF y.n < 0 THEN -1 ELSE 1))
      [] OTHER -> NaN

\* the integer part of a finite x, truncated towards zero (int())
Trunc(x) == Sgn(x.n) * (Abs(x.n) \div x.d)

\* floor(|x| / |y|) for finite x and y # 0, without forming x.n * y.d
FloorQuot(x, y) ==
    LET i == Abs(x.n) \div x.d
        r == Abs(x.n) % x.d
    IN  (i * y.d + (r * y.d) \div x.d) \div Abs(y.n)

\* x / y as the cast at line 134 sees it: its kind, its sign and the integer
\* part of its magnitude (the cast drops the fraction)
Quot(x, y) ==
    LET q == CASE x.k = "nan" \/ y.k = "nan" -> NaN
               [] x.k = "fin" /\ y.k = "fin" ->
                     IF y.n = 0
                     THEN IF x.n = 0 THEN NaN ELSE Inf(x.n)
                     ELSE Int2Num(Sgn(x.n) * Sgn(y.n) * FloorQuot(x, y))
               [] OTHER -> NumDiv(x, y)
    IN  [k |-> q.k, s |-> IF q.k = "fin" THEN Sgn(x.n) * Sgn(y.n) ELSE NumSgn(q),
         t |-> Abs(q.n)]


(***************************************************************************)
(* Unsigned 32-bit pixels (dtype='uint32', line 134) as <<hi, lo>>         *)
(***************************************************************************)
Half == 65536

U32Zero == <<0, 0>>

\* 0 <= n < 2^31
U32OfNat(n) == <<n \div Half, n % Half>>

\* the two's-complement image of an integer -2^31 < i < 2^31
U32Wrap(i) ==
    IF i >= 0 THEN U32OfNat(i)
    ELSE LET m == U32OfNat(-i - 1) IN <<(Half - 1) - m[1], (Half - 1) - m[2]>>

\* v * k modulo 2^32, for a small k >= 0 (imgout *= int(...), line 138)
U32Mul(v, k) ==
    LET lo == v[2] * k
    IN  <<(v[1] * k + lo \div Half) % Half, lo % Half>>

U32IsInt(v) == v[1] < Half \div 2

U32ToInt(v) == v[1] * Half + v[2]

\* np.array(x, dtype='uint32') on one double.  In range the C conversion
\* truncates.  Out of range (negative, nan, inf) the conversion is undefined
\* in C, and what it yields depends on the build:
\*   "wrap"        converts through a 64-bit integer and keeps the low 32 bits
\*                 (nan and inf give 0x8000000000000000, low half 0);
\*   "saturate"    clamps to [0, 2^32 - 1], nan to 0;
\*   "indefinite"  yields the pattern 0x80000000 for every out-of-range value.
Builds == {"wrap", "saturate", "indefinite"}

CastU32(q, build) ==
    IF q.k = "fin" /\ (q.s >= 0 \/ q.t = 0) THEN U32OfNat(q.t)
    ELSE CASE build = "wrap" -> IF q.k = "fin" THEN U32Wrap(-q.t) ELSE U32Zero
           [] build = "saturate" ->
                 IF q.k = "inf" THEN <<Half - 1, Half - 1>> ELSE U32Zero
           [] OTHER -> <<Half \div 2, 0>>

(***************************************************************************)
(* Square roots, cos(arcsin(x))                                            *)
(***************************************************************************)
CosDen == 10

ISqrt(n) == CHOOSE k \in 0..n : k * k <= n /\ (k + 1) * (k + 1) > n

IsSquare(n) == ISqrt(n) * ISqrt(n) = n

\* sqrt of a rational r >= 0: exact for the ratio of two squares, otherwise
\* rounded to the nearest 1/CosDen
SqrtNum(r) ==
    IF IsSquare(r.n) /\ IsSquare(r.d)
    THEN Rat(ISqrt(r.n), ISqrt(r.d))
    ELSE Rat((ISqrt((4 * CosDen * CosDen * r.n) \div r.d) + 1) \div 2, CosDen)

(***************************************************************************)
(* darklimb_u, darklimb_v (lines 67-89)                                    *)
(* ul = sum(a*pll), pll = [1, ll, ll^2, ..., ll^5].  The wavelength is     *)
(* counted in units of WaveUnit and coefficient i is held as the integer   *)
(* nearest to a_i * WaveUnit^i * CoefScale; the sum is rounded to 1/CoefDen*)
(***************************************************************************)
WaveUnit == 1000

CoefScale == 1000000

CoefDen == 100

\* au .. fu, lines 69-74
CoefU == <<-8982975, 6909392, -1814459, 225409, -13390, 305>>

\* av .. fv, lines 81-86
CoefV == <<9289118, -6221263, 1578803, -193596, 11444, -260>>

RECURSIVE Pow(_, _)
Pow(x, i) == IF i = 0 THEN 1 ELSE x * Pow(x, i - 1)

\* np.array([1.0, ll, ll**2, ll**3, ll**4, ll**5])
Pll(ll) == [i \in 1..6 |-> Pow(ll \div WaveUnit, i - 1)]

\* sum(a*pll): Python's sum, left to right from 0
RECURSIVE SumTo(_, _, _)
SumTo(a, p, i) == IF i = 0 THEN 0 ELSE SumTo(a, p, i - 1) + a[i] * p[i]

\* floor(s/m + 1/2)
RoundDiv(s, m) == (2 * s + m) \div (2 * m)

PolyValue(a, ll) ==
    Rat(RoundDiv(SumTo(a, Pll(ll), 6), CoefScale \div CoefDen), CoefDen)

darklimb_u(ll) == PolyValue(CoefU, ll)

darklimb_v(ll) == PolyValue(CoefV, ll)

(***************************************************************************)
(* Arrays: [rows, cols, px] with px a function on (0..rows-1) x (0..cols-1)*)
(***************************************************************************)
Pixels(r, c) == (0..(r - 1)) \X (0..(c - 1))

\* a 2-D array: its shape and its value at each pixel
Grid(r, c, f) == [rows |-> r, cols |-> c, px |-> [p \in Pixels(r, c) |-> f[p]]]

NoGrid == [rows |-> 0, cols |-> 0, px |-> <<>>]

Shape(g) == <<g.rows, g.cols>>

\* np.max / np.nanmax of an integer array
RECURSIVE MaxOf(_)
MaxOf(S) ==
    LET x == CHOOSE y \in S : TRUE
    IN  IF S = {x} THEN x
        ELSE LET m == MaxOf(S \ {x}) IN IF x > m THEN x ELSE m

ArrayMax(g) == MaxOf({g.px[p] : p \in DOMAIN g.px})

\* numpy broadcasting of two 2-D shapes: each axis equal, or one of them 1
CanBroadcast(a, b) ==
    /\ (a.rows = b.rows \/ a.rows = 1 \/ b.rows = 1)
    /\ (a.cols = b.cols \/ a.cols = 1 \/ b.cols = 1)

BIndex(g, p) == << IF g.rows = 1 THEN 0 ELSE p[1], IF g.cols = 1 THEN 0 ELSE p[2] >>

Bigger(m, n) == IF m > n THEN m ELSE n

\* a / b elementwise under broadcasting
BroadcastDiv(a, b) ==
    LET r == Bigger(a.rows, b.rows)
        c == Bigger(a.cols, b.cols)
    IN  Grid(r, c, [p \in Pixels(r, c) |->
                      Quot(a.px[BIndex(a, p)], b.px[BIndex(b, p)])])

(***************************************************************************)
(* Program constants                                                       *)
(***************************************************************************)
\* 1e4, lines 110 and 138
TenK == 10000

\* data < -10, line 111
Sentinel == -10

\* the keys read at lines 99-106, in the order they are read
ReadOrder == << "WAVELNTH", "CRPIX1", "CRPIX2", "RSUN_OBS", "CDELT1",
                "NAXIS1", "BZERO", "BLANK", "BSCALE" >>

Keys == {ReadOrder[i] : i \in 1..Len(ReadOrder)}

(***************************************************************************)
(* The input files                                                         *)
(***************************************************************************)
MaxRows == 2

MaxNaxis == 2

MaxMissing == 1

Wavelengths == {0, 6000, 20000}

Crpix1Values == {-3, 0}

Crpix2Values == {0}

RsunValues == {1, 5}

CdeltValues == {-1, 0, 1}

DataValues == {-20, -5, 0, 10000, 20000}

\* a complete header of an image NAXIS1 pixels wide
FullHeaders(n) ==
    { [k \in Keys |->
         CASE k = "WAVELNTH" -> w [] k = "CRPIX1" -> x [] k = "CRPIX2" -> y
           [] k = "RSUN_OBS" -> r [] k = "CDELT1" -> c [] k = "NAXIS1" -> n
           [] k = "BZERO" -> 97 [] k = "BLANK" -> -32768 [] OTHER -> 2] :
      w \in Wavelengths, x \in Crpix1Values, y \in Crpix2Values,
      r \in RsunValues, c \in CdeltValues }

Restrict(h, D) == [k \in D |-> h[k]]

\* headers lacking up to MaxMissing of the required keys
Headers(n) ==
    { Restrict(h, Keys \ M) :
        h \in FullHeaders(n),
        M \in {X \in SUBSET Keys : Cardinality(X) <= MaxMissing} }

\* pixel grids: one value everywhere but at one pixel
Images(r, c) ==
    { Grid(r, c, [p \in Pixels(r, c) |-> IF p = q THEN s ELSE b]) :
        q \in Pixels(r, c), s \in DataValues, b \in DataValues }

\* the files Map(name) may find: data of r rows and c columns, NAXIS1 = c
IsFile(f) ==
    \E r \in 1..MaxRows, c \in 1..MaxNaxis :
        \E h \in Headers(c), d \in Images(r, c) : f = [header |-> h, data |-> d]

(***************************************************************************)
(* State                                                                   *)
(***************************************************************************)
VARIABLES
    fits,      \* the file Map(name) reads: [header, data]
    name,      \* the path given to darklimb and to writefits
    pc,        \* the statement darklimb is about to run
    pass,      \* 1: first application, 2: application to the corrected image
    mapa,      \* the loaded Map; `data` and `head` are aliases of its fields
    loc,       \* wavelength, xcen, ycen, radius, size, bzero, blank, bscale
    array,     \* the rescaled image (line 110)
    ul, vl,    \* the coefficients (lines 115-116)
    grid,      \* the normalized radius (lines 126-128)
    limbfilt,  \* the correction field (line 130)
    imgout,    \* the corrected grid (lines 134, 138)
    ret,       \* what darklimb returned: [corrected, original]
    err,       \* the exception that ended darklimb, "" if none
    first,     \* the corrected grid of the first application
    fname      \* the name writefits saved under and returned

vars == << fits, name, pc, pass, mapa, loc, array, ul, vl, grid, limbfilt,
           imgout, ret, err, first, fname >>

NoMap == [data |-> NoGrid, meta |-> <<>>]

NoLoc == [wavelength |-> 0, xcen |-> 0, ycen |-> 0, radius |-> Int2Num(0),
          size |-> 0, bzero |-> 0, blank |-> 0, bscale |-> 0]

NoRet == [corrected |-> NoMap, original |-> NoMap]

\* name, line 153
MainName == << ".", "/", "h", "m", "i", ".", "i", "c", "_", "4", "5", "s", ".",
               "2", "0", "1", "4", ".", "0", "2", ".", "0", "4", "_", "0", "3",
               "_", "4", "4", "_", "1", "5", "_", "T", "A", "I", ".", "c", "o",
               "n", "t", "i", "n", "u", "u", "m", ".", "f", "i", "t", "s" >>

Locals == << loc, array, ul, vl, grid, limbfilt, imgout >>

Init ==
    /\ IsFile(fits)
    /\ name = MainName
    /\ pc = "load"
    /\ pass = 1
    /\ mapa = NoMap
    /\ loc = NoLoc
    /\ array = NoGrid
    /\ ul = Int2Num(0)
    /\ vl = Int2Num(0)
    /\ grid = NoGrid
    /\ limbfilt = NoGrid
    /\ imgout = NoGrid
    /\ ret = NoRet
    /\ err = ""
    /\ first = NoGrid
    /\ fname = << >>

(***************************************************************************)
(* darklimb, lines 94-96: mapa = Map(name); data = mapa.data;              *)
(* head = mapa.meta                                                        *)
(***************************************************************************)
Load ==
    /\ pc = "load"
    /\ mapa' = [data |-> fits.data, meta |-> fits.header]
    /\ pc' = "extract"
    /\ UNCHANGED << fits, name, pass, Locals, ret, err, first, fname >>

(***************************************************************************)
(* lines 99-106.  head[k] raises KeyError for an absent key; line 102      *)
(* divides as soon as RSUN_OBS and CDELT1 are read, and a zero CDELT1      *)
(* raises ZeroDivisionError there, before NAXIS1 .. BSCALE are read.       *)
(***************************************************************************)
\* the position in ReadOrder of the first key the header lacks, 10 if none
FirstMissing(head) ==
    LET absent == {i \in 1..Len(ReadOrder) : ReadOrder[i] \notin DOMAIN head}
    IN  IF absent = {} THEN Len(ReadOrder) + 1
        ELSE CHOOSE i \in absent : \A j \in absent : i <= j

ExtractError(head) ==
    IF FirstMissing(head) <= 5 THEN "KeyError"
    ELSE IF head["CDELT1"] = 0 THEN "ZeroDivisionError"
    ELSE IF FirstMissing(head) <= Len(ReadOrder) THEN "KeyError"
    ELSE ""

ExtractLocals(head) ==
    [wavelength |-> head["WAVELNTH"], xcen |-> head["CRPIX1"],
     ycen |-> head["CRPIX2"], radius |-> Rat(head["RSUN_OBS"], head["CDELT1"]),
     size |-> head["NAXIS1"], bzero |-> head["BZERO"],
     blank |-> head["BLANK"], bscale |-> head["BSCALE"]]

Extract ==
    /\ pc = "extract"
    /\ IF ExtractError(mapa.meta) # ""
       THEN /\ err' = ExtractError(mapa.meta)
            /\ pc' = "raised"
            /\ loc' = loc
       ELSE /\ loc' = ExtractLocals(mapa.meta)
            /\ pc' = "rescale"
            /\ err' = err
    /\ UNCHANGED << fits, name, pass, mapa, array, ul, vl, grid, limbfilt,
                    imgout, ret, first, fname >>

(***************************************************************************)
(* lines 110-112: array = 1e4*data/np.max(data); array[data < -10] = 0     *)
(***************************************************************************)
Rescaled(data) ==
    LET m == ArrayMax(data)
        f == [p \in DOMAIN data.px |->
                IF data.px[p] < Sentinel THEN Int2Num(0)
                ELSE NumDiv(Int2Num(TenK * data.px[p]), Int2Num(m))]
    IN  Grid(data.rows, data.cols, f)

\* a variant in which the zero-fill reaches `data` itself (array a view of it)
RescaleInPlace(m) ==
    [mapa |-> [m EXCEPT !.data.px =
                 [p \in DOMAIN m.data.px |->
                    IF m.data.px[p] < Sentinel THEN 0 ELSE m.data.px[p]]],
     array |-> Rescaled(m.data)]

\* the Map and the new array after lines 110-112: 1e4*data/max builds a new
\* array, and the zero-fill is applied to that array
RescaleStep(m) == [mapa |-> m, array |-> Rescaled(m.data)]

Rescale ==
    /\ pc = "rescale"
    /\ mapa' = RescaleStep(mapa).mapa
    /\ array' = RescaleStep(mapa).array
    /\ pc' = "coeffs"
    /\ UNCHANGED << fits, name, pass, loc, ul, vl, grid, limbfilt,
                    imgout, ret, err, first, fname >>

(***************************************************************************)
(* lines 108, 115-116: ll = 1.0*wavelength; ul, vl                         *)
(***************************************************************************)
Coeffs ==
    /\ pc = "coeffs"
    /\ ul' = darklimb_u(loc.wavelength)
    /\ vl' = darklimb_v(loc.wavelength)
    /\ pc' = "grid"
    /\ UNCHANGED << fits, name, pass, mapa, loc, array, grid, limbfilt,
                    imgout, ret, err, first, fname >>

(***************************************************************************)
(* lines 118-128.  xx[i][j] = j, yy[i][j] = i over size x size;            *)
(* z = sqrt((xx-xcen)^2 + (yy-ycen)^2); grid = z/radius; grid[grid > 1] = 0*)
(* A grid value g is held exactly as its sign s and its square sq.         *)
(***************************************************************************)
One == Int2Num(1)

GridZero == [k |-> "fin", s |-> 0, sq |-> Int2Num(0)]

Z2(p, xcen, ycen) == (p[2] - xcen) * (p[2] - xcen) + (p[1] - ycen) * (p[1] - ycen)

\* z / radius for z = sqrt(z2) >= 0; a zero radius gives inf, or nan at z = 0
Normalized(z2, radius) ==
    IF radius.n = 0
    THEN [k |-> IF z2 = 0 THEN "nan" ELSE "inf", s |-> 0, sq |-> Int2Num(0)]
    ELSE [k |-> "fin", s |-> Sgn(radius.n) * Sgn(z2),
          sq |-> Rat(z2 * radius.d * radius.d, radius.n * radius.n)]

\* grid > 1.0
AboveOne(g) == g.k = "inf" \/ (g.k = "fin" /\ g.s = 1 /\ Less(One, g.sq))

\* line 127-128: out = np.where(grid > 1.0); grid[out] = 0
Clamp(g) == IF AboveOne(g) THEN GridZero ELSE g

RadialGrid(l) ==
    Grid(l.size, l.size,
         [p \in Pixels(l.size, l.size) |->
            Clamp(Normalized(Z2(p, l.xcen, l.ycen), l.radius))])

MakeGrid ==
    /\ pc = "grid"
    /\ grid' = RadialGrid(loc)
    /\ pc' = "limb"
    /\ UNCHANGED << fits, name, pass, mapa, loc, array, ul, vl, limbfilt,
                    imgout, ret, err, first, fname >>

(***************************************************************************)
(* lines 130-131: limbfilt = 1.0 - ul - vl + ul*cos(arcsin(grid))          *)
(*                           + vl*cos(arcsin(grid))**2                     *)
(***************************************************************************)
\* np.cos(np.arcsin(g)): sqrt(1 - g^2) for |g| <= 1, nan outside the domain
CosArcsin(g) ==
    IF g.k = "fin" /\ ~Less(One, g.sq) THEN SqrtNum(NumSub(One, g.sq)) ELSE NaN

LimbValue(u, v, g) ==
    LET c == CosArcsin(g)
    IN  NumAdd(NumAdd(NumSub(NumSub(One, u), v), NumMul(u, c)),
               NumMul(v, NumMul(c, c)))

LimbField(u, v, gr) ==
    Grid(gr.rows, gr.cols, [p \in DOMAIN gr.px |-> LimbValue(u, v, gr.px[p])])

Limb ==
    /\ pc = "limb"
    /\ limbfilt' = LimbField(ul, vl, grid)
    /\ pc' = "final"
    /\ UNCHANGED << fits, name, pass, mapa, loc, array, ul, vl, grid,
                    imgout, ret, err, first, fname >>

(***************************************************************************)
(* lines 134-138: imgout = np.array(array/limbfilt, dtype='uint32');       *)
(* mapa.meta[...] = bzero, blank, bscale; imgout *= int(1e-4*nanmax(data)) *)
(* array/limbfilt raises ValueError when the shapes do not broadcast.      *)
(***************************************************************************)
\* a variant that rounds the multiplier up
MultiplierCeil(data) == (ArrayMax(data) + TenK - 1) \div TenK

\* int(1e-4*np.nanmax(data)): int() truncates towards zero
Multiplier(data) == Trunc(Rat(ArrayMax(data), TenK))

\* array/limbfilt, the quotient before the cast
Quotient(a, l) == BroadcastDiv(a, l)

\* the grid the cast of q and the multiplication by k produce on a build
CastAndScale(q, k, build) ==
    [rows |-> q.rows, cols |-> q.cols,
     px |-> [p \in DOMAIN q.px |-> U32Mul(CastU32(q.px[p], build), k)]]

\* a variant that stores the fields under one another's keys
ReassertSwapped(meta, l) ==
    [meta EXCEPT !["BZERO"] = l.bscale, !["BLANK"] = l.bzero, !["BSCALE"] = l.blank]

\* lines 135-137
ReassertMeta(meta, l) ==
    [meta EXCEPT !["BZERO"] = l.bzero, !["BLANK"] = l.blank, !["BSCALE"] = l.bscale]

Final ==
    /\ pc = "final"
    /\ IF ~CanBroadcast(array, limbfilt)
       THEN /\ err' = "ValueError"
            /\ pc' = "raised"
            /\ UNCHANGED << imgout, mapa >>
       ELSE /\ \E build \in Builds :
                 imgout' = CastAndScale(Quotient(array, limbfilt),
                                        Multiplier(mapa.data), build)
            /\ mapa' = [mapa EXCEPT !.meta = ReassertMeta(mapa.meta, loc)]
            /\ pc' = "return"
            /\ err' = err
    /\ UNCHANGED << fits, name, pass, loc, array, ul, vl, grid, limbfilt,
                    ret, first, fname >>

(***************************************************************************)
(* line 140: return Map(imgout, mapa.meta), mapa                           *)
(***************************************************************************)
Return ==
    /\ pc = "return"
    /\ ret' = [corrected |-> [data |-> imgout, meta |-> mapa.meta],
               original |-> mapa]
    /\ pc' = "returned"
    /\ UNCHANGED << fits, name, pass, mapa, Locals, err, first, fname >>

(***************************************************************************)
(* The second application: the corrected image, saved and read back, is    *)
(* given to darklimb again.  Pixels above MaxReapply are not fed back.     *)
(***************************************************************************)
MaxReapply == 200000

AsIntegers(g) == Grid(g.rows, g.cols, [p \in DOMAIN g.px |-> U32ToInt(g.px[p])])

Reapply ==
    /\ pc = "returned"
    /\ pass = 1
    /\ \A p \in DOMAIN ret.corrected.data.px :
          /\ U32IsInt(ret.corrected.data.px[p])
          /\ U32ToInt(ret.corrected.data.px[p]) <= MaxReapply
    /\ fits' = [header |-> ret.corrected.meta, data |-> AsIntegers(ret.corrected.data)]
    /\ first' = ret.corrected.data
    /\ pass' = 2
    /\ pc' = "load"
    /\ mapa' = NoMap
    /\ loc' = NoLoc
    /\ array' = NoGrid
    /\ ul' = Int2Num(0)
    /\ vl' = Int2Num(0)
    /\ grid' = NoGrid
    /\ limbfilt' = NoGrid
    /\ imgout' = NoGrid
    /\ ret' = NoRet
    /\ UNCHANGED << name, err, fname >>

(***************************************************************************)
(* writefits, lines 25-38: name = name.replace(replace, "_noLimbDark.fits")*)
(* image.save(name, overwrite=1); return name                              *)
(***************************************************************************)
\* replace, line 25
replace == << ".", "f", "i", "t", "s" >>

\* "_noLimbDark.fits", line 36
Marker == << "_", "n", "o", "L", "i", "m", "b", "D", "a", "r", "k",
             ".", "f", "i", "t", "s" >>

StartsWith(s, t) == Len(s) >= Len(t) /\ SubSeq(s, 1, Len(t)) = t

\* str.replace(old, new): every non-overlapping occurrence, left to right
RECURSIVE StrReplace(_, _, _)
StrReplace(s, old, new) ==
    IF Len(s) < Len(old) THEN s
    ELSE IF StartsWith(s, old)
         THEN new \o StrReplace(SubSeq(s, Len(old) + 1, Len(s)), old, new)
         ELSE << Head(s) >> \o StrReplace(Tail(s), old, new)

writefits(nm) == StrReplace(nm, replace, Marker)

WriteFits ==
    /\ pc = "returned"
    /\ fname' = writefits(name)
    /\ pc' = "written"
    /\ UNCHANGED << fits, name, pass, mapa, Locals, ret, err, first >>

Next ==
    \/ Load
    \/ Extract
    \/ Rescale
    \/ Coeffs
    \/ MakeGrid
    \/ Limb
    \/ Final
    \/ Return
    \/ Reapply
    \/ WriteFits

Spec == Init /\ [][Next]_vars

(***************************************************************************)
(* writefits on its own: any name, after a darklimb that returned          *)
(***************************************************************************)
MaxTokens == 3

Tokens == { << "a" >>, << "/" >>, << "." >>, << ".", "f", "i", "t" >>, replace }

RECURSIVE Joined(_)
Joined(n) ==
    IF n = 0 THEN { << >> }
    ELSE Joined(n - 1) \cup { s \o t : s \in Joined(n - 1), t \in Tokens }

Names == Joined(MaxTokens) \ { << >> }

InitW ==
    /\ fits = [header |-> << >>, data |-> NoGrid]
    /\ name \in Names
    /\ pc = "returned"
    /\ pass = 1
    /\ mapa = NoMap
    /\ loc = NoLoc
    /\ array = NoGrid
    /\ ul = Int2Num(0)
    /\ vl = Int2Num(0)
    /\ grid = NoGrid
    /\ limbfilt = NoGrid
    /\ imgout = NoGrid
    /\ ret = NoRet
    /\ err = ""
    /\ first = NoGrid
    /\ fname = << >>

SpecWrite == InitW /\ [][WriteFits]_vars


(***************************************************************************)
(* The properties                                                          *)
(***************************************************************************)
Past(labels) == pc \in labels

FileMap == [data |-> fits.data, meta |-> fits.header]

\* pixel p lies farther from the disk centre than the radius (z > radius)
Beyond(p, l) ==
    \/ l.radius.n < 0
    \/ Z2(p, l.xcen, l.ycen) * l.radius.d * l.radius.d > l.radius.n * l.radius.n

\* C1: every pixel farther from the disk centre than the radius has a limb
\* value of exactly 1
C1_OffDiskLimbIsOne ==
    Past({"final", "return", "returned"}) =>
        \A p \in DOMAIN limbfilt.px : Beyond(p, loc) => limbfilt.px[p] = One

\* C2: darklimb does not return for an image whose maximum is zero or whose
\* limb value is zero at some pixel (it fails instead)
C2_DegenerateNeverReturns ==
    pc = "returned" =>
        /\ ArrayMax(mapa.data) # 0
        /\ \A p \in DOMAIN limbfilt.px : limbfilt.px[p] # Int2Num(0)

\* C3: when any of the nine header fields is absent, darklimb fails with the
\* missing-field error (the KeyError of the header lookup)
C3_AbsentFieldRaisesKeyError ==
    (Past({"rescale", "coeffs", "grid", "limb", "final", "return", "returned",
           "raised"}) /\ Keys \ DOMAIN fits.header # {})
        => (pc = "raised" /\ err = "KeyError")

\* C4: the corrected image's BZERO, BLANK and BSCALE are the values the input
\* header carried
C4_ScalingFieldsRoundTrip ==
    pc = "returned" =>
        \A k \in {"BZERO", "BLANK", "BSCALE"} :
            ret.corrected.meta[k] = fits.header[k]

C4_Witness ==
    /\ pc = "returned"
    /\ pass = 1
    /\ ret.corrected.meta["BZERO"] = 97
    /\ ret.corrected.meta["BLANK"] = -32768
    /\ ret.corrected.meta["BSCALE"] = 2
    /\ ArrayMax(fits.data) > 0

\* C5: the input image is never changed: once loaded, the Map holds the
\* file's pixels and header at every step, and the original darklimb returns
\* is that unchanged image
C5_InputNeverMutated ==
    /\ Past({"extract", "rescale", "coeffs", "grid", "limb", "final", "return",
             "returned", "raised"}) => mapa = FileMap
    /\ pc = "returned" => ret.original = FileMap

\* a returned run whose rescaled array was zero-filled at a sentinel pixel
C5_Witness ==
    /\ pc = "returned"
    /\ ret.original = FileMap
    /\ \E p \in DOMAIN fits.data.px :
          /\ fits.data.px[p] < Sentinel
          /\ array.px[p] = Int2Num(0)
    /\ \E p \in DOMAIN fits.data.px : fits.data.px[p] > 0

\* C6: the corrected grid has the rows and columns of the input grid (stated
\* for a positive radius and a positive image maximum)
C6_ShapePreserved ==
    (pc = "returned" /\ loc.radius.n > 0 /\ ArrayMax(mapa.data) > 0) =>
        Shape(ret.corrected.data) = Shape(fits.data)

\* C7: the quotient array/limbfilt is non-negative at every pixel, so the
\* cast to unsigned 32-bit never meets a negative value (stated for a
\* positive radius, a positive image maximum and a limb value that is
\* positive everywhere)
C7_QuotientNonNegative ==
    (/\ Past({"return", "returned"})
     /\ loc.radius.n > 0
     /\ ArrayMax(mapa.data) > 0
     /\ \A p \in DOMAIN limbfilt.px : Less(Int2Num(0), limbfilt.px[p])) =>
        \A p \in DOMAIN imgout.px :
            LET q == Quotient(array, limbfilt).px[p]
            IN  q.k # "-inf" /\ (q.k = "fin" => q.s >= 0)

SecondDone == pass = 2 /\ pc = "returned"

FirstMax == MaxOf({U32ToInt(first.px[p]) : p \in DOMAIN first.px})

EndsWith(s, t) == Len(s) >= Len(t) /\ SubSeq(s, Len(s) - Len(t) + 1, Len(s)) = t

\* C9: writefits names the output by replacing the trailing ".fits" of the
\* name, once, by "_noLimbDark.fits"; the rest of the name is kept
C9_OnlyTrailingSuffixReplaced ==
    (pc = "written" /\ EndsWith(name, replace)) =>
        fname = SubSeq(name, 1, Len(name) - Len(replace)) \o Marker

\* C10: every value of the normalized grid handed to arcsin lies in [0, 1]
C10_ArcsinArgumentInUnitInterval ==
    Past({"limb", "final", "return", "returned"}) =>
        \A p \in DOMAIN grid.px :
            /\ grid.px[p].k = "fin"
            /\ grid.px[p].s >= 0
            /\ ~Less(One, grid.px[p].sq)

=============================================================================
